---- MODULE Spec2Model ----
(***************************************************************************)
(* A model of src/improc.py: the image helpers paste_over,                 *)
(* remove_small_components, largest_connected_component, adjust_gamma /    *)
(* get_gamma_lookup_table and is_image_readable.                           *)
(*                                                                         *)
(* Every helper is a single synchronous call.  A call is modelled as one   *)
(* action from pc = "call" (the arguments as the caller holds them) to     *)
(* pc = "done" (the return value in `result`, the caller's buffers as the  *)
(* call left them) or pc = "raised" (an exception reached the caller).     *)
(*                                                                         *)
(* Arrays are records [shape, px]: shape is numpy's shape tuple, rows      *)
(* first, and px maps <<y, x, ch>> (images) or <<y, x>> (masks, alpha      *)
(* maps) to the element.  Pixel and alpha values are fixed-point numbers   *)
(* in units of 1/AlphaDen, so that alpha * src + (1 - alpha) * dst is      *)
(* computed exactly and the conversion to an integer element type is a     *)
(* real truncation.                                                        *)
(***************************************************************************)
EXTENDS Integers, Sequences, FiniteSets, TLC

VARIABLES
    pc,            \* "call", "done" or "raised"
    im_src,        \* paste_over: the caller's source image
    im_dst,        \* paste_over: the caller's destination buffer
    alpha,         \* paste_over: the caller's alpha map, or None
    center,        \* paste_over: <<x, y>> in half pixels (before np.round)
    inplace,       \* paste_over, remove_small_components, adjust_gamma
    result,        \* the value the call returned (or the exception's name)
    loc,           \* locals of the call kept for inspection
    mask,          \* remove_small_components, largest_connected_component
    min_size,      \* remove_small_components
    connectivity,  \* remove_small_components
    image,         \* adjust_gamma: the caller's image buffer
    gamma,         \* adjust_gamma
    lut_cache,     \* functools.lru_cache of get_gamma_lookup_table
    path,          \* is_image_readable
    proc           \* is_image_readable: what running the validator did

vars == <<pc, im_src, im_dst, alpha, center, inplace, result, loc, mask,
          min_size, connectivity, image, gamma, lut_cache, path, proc>>

\* Python's None; also the value of a variable the modelled call does not use.
None == [none |-> TRUE]

\* An exception that reached the caller.
Raised(name) == [raised |-> name]

Min(a, b) == IF a <= b THEN a ELSE b
Max(a, b) == IF a >= b THEN a ELSE b

-----------------------------------------------------------------------------
(* Bounds of the model.                                                    *)

MaxSrcW == 3     \* source images are 0..MaxSrcW wide
MaxSrcH == 2     \* and 0..MaxSrcH high
MaxDstW == 2     \* destination images are 1..MaxDstW wide
MaxDstH == 1     \* and 1..MaxDstH high
AlphaDen == 2    \* alpha takes the values 0/AlphaDen .. AlphaDen/AlphaDen
NumPaths == 2    \* is_image_readable is asked about paths 1..NumPaths
MaxExitCode == 40  \* the validator exits with 0..MaxExitCode
MaxSignal == 15  \* or is ended by a signal 1..MaxSignal
MaxMaskW == 3    \* masks are 1..MaxMaskW wide
MaxMaskH == 2    \* and 1..MaxMaskH high
MaxMinSize == 3  \* remove_small_components is asked for min_size 0..MaxMinSize

MaxLutPixels == 1  \* adjust_gamma is given images of 1..MaxLutPixels pixels

\* The number of values of np.uint8.
Uint8Range == 256

\* np.linspace(0, 1, 256) and the scale 255 of the lookup table.
NumLevels == 256
MaxLevel == 255

\* The significand of a float64 (numpy's default floating type).
MantissaBits == 53

-----------------------------------------------------------------------------
(* paste_over                                                              *)

\* Image shapes the caller may pass: 2-D (grey) or 3-D with two channels.
Shapes(minSize, maxH, maxW) ==
    {<<h, w>> : h \in minSize..maxH, w \in minSize..maxW}
      \cup {<<h, w, 2>> : h \in minSize..maxH, w \in minSize..maxW}

NChannels(shape) == IF Len(shape) = 3 THEN shape[3] ELSE 1

Positions(shape) == (0..shape[1]-1) \X (0..shape[2]-1) \X (1..NChannels(shape))

\* Element types of the destination: the assignment into `result` converts.
DTypes == {"uint8", "float32"}

\* A whole number v as a fixed-point value.
Whole(v) == v * AlphaDen

\* The caller's images: every element distinct, source and destination
\* disjoint, so that a misplaced or unblended pixel shows.
SrcImage(shape) ==
    [shape |-> shape,
     px |-> [p \in Positions(shape) |->
                Whole(1 + (p[3] - 1) + 2 * (p[2] + (MaxSrcW + 1) * p[1]))]]

DstImage(shape, dtype) ==
    [shape |-> shape, dtype |-> dtype,
     px |-> [p \in Positions(shape) |->
                Whole(100 + (p[3] - 1) + 2 * (p[2] + (MaxDstW + 1) * p[1]))]]

\* Alpha maps of the source's spatial size: all ones, or mixed values.
AlphaKinds == {"ones", "mixed"}

AlphaMap(kind, shape) ==
    [shape |-> <<shape[1], shape[2]>>,
     px |-> [p \in (0..shape[1]-1) \X (0..shape[2]-1) |->
                IF kind = "ones" THEN AlphaDen
                ELSE (1 + p[2] + 2 * p[1]) % (AlphaDen + 1)]]

\* np.round of a coordinate given in half pixels: halves go to the even
\* neighbour.  (astype(np.int32) leaves these small values as they are.)
NpRound(c2) ==
    IF c2 % 2 = 0 THEN c2 \div 2
    ELSE LET f == (c2 - 1) \div 2 IN IF f % 2 = 0 THEN f ELSE f + 1

\* np.clip(v, lo, hi)
NpClip(v, lo, hi) == Min(Max(v, lo), hi)

\* The indices a Python slice lo:hi selects on an axis of length n.
SliceBound(i, n) == IF i < 0 THEN Max(i + n, 0) ELSE Min(i, n)

PySlice(lo, hi, n) ==
    LET a == SliceBound(lo, n)
        b == SliceBound(hi, n)
    IN  [k \in 1..Max(b - a, 0) |-> a + k - 1]

\* width_height_* = [shape[1], shape[0]]
WidthHeight(im) == <<im.shape[2], im.shape[1]>>

IdealStartDst(c, whs) == [i \in 1..2 |-> c[i] - whs[i] \div 2]
IdealEndDst(c, whs) == [i \in 1..2 |-> IdealStartDst(c, whs)[i] + whs[i]]
StartDst(c, whs, whd) == [i \in 1..2 |-> NpClip(IdealStartDst(c, whs)[i], 0, whd[i])]
\* Mutant: the end is clamped to the destination's size but not to 0.
EndDst_NoLowerClip(c, whs, whd) ==
    [i \in 1..2 |-> Min(IdealEndDst(c, whs)[i], whd[i])]

EndDst(c, whs, whd) == [i \in 1..2 |-> NpClip(IdealEndDst(c, whs)[i], 0, whd[i])]
\* Mutant: the source is always read from its first row and column.
StartSrc_Zero(c, whs, whd) == [i \in 1..2 |-> 0]

StartSrc(c, whs, whd) ==
    [i \in 1..2 |-> StartDst(c, whs, whd)[i] - IdealStartDst(c, whs)[i]]
\* Mutant: the source is always read to its last row and column.
EndSrc_Unclamped(c, whs, whd) == [i \in 1..2 |-> whs[i]]

EndSrc(c, whs, whd) ==
    [i \in 1..2 |-> whs[i] + (EndDst(c, whs, whd)[i] - IdealEndDst(c, whs)[i])]

\* The locals of one call.
PasteLocals(src, dst, c2) ==
    LET c == [i \in 1..2 |-> NpRound(c2[i])]
        whs == WidthHeight(src)
        whd == WidthHeight(dst)
    IN  [center |-> c,
         ideal_start_dst |-> IdealStartDst(c, whs),
         ideal_end_dst |-> IdealEndDst(c, whs),
         start_dst |-> StartDst(c, whs, whd),
         end_dst |-> EndDst(c, whs, whd),
         start_src |-> StartSrc(c, whs, whd),
         end_src |-> EndSrc(c, whs, whd)]

\* np.ones(im_src.shape[:2]) and np.expand_dims(a, -1).
Ones(shape) ==
    [shape |-> <<shape[1], shape[2]>>,
     px |-> [p \in (0..shape[1]-1) \X (0..shape[2]-1) |-> AlphaDen]]

ExpandDims(a) ==
    [shape |-> a.shape \o <<1>>,
     px |-> [p \in (0..a.shape[1]-1) \X (0..a.shape[2]-1) \X {1} |->
                a.px[<<p[1], p[2]>>]]]

\* Mutant: an absent alpha map is taken as fully transparent.
AlphaAt_NoneZero(a, src, y, x, ch) ==
    IF a = None THEN 0 ELSE a.px[<<y, x>>]

\* alpha as lines 154-158 leave it, at the source position <<y, x>> and
\* channel ch: ones when None; a map with fewer axes than the image gets a
\* trailing axis of length 1, which broadcasts over the channels.
AlphaAt(a, src, y, x, ch) ==
    LET a1 == IF a = None THEN Ones(src.shape) ELSE a
        a2 == IF Len(a1.shape) < Len(src.shape) THEN ExpandDims(a1) ELSE a1
    IN  IF Len(a2.shape) = 3
        THEN a2.px[<<y, x, IF a2.shape[3] = 1 THEN 1 ELSE ch>>]
        ELSE a2.px[<<y, x>>]

\* numpy broadcasting of a sliced source axis against the destination
\* slice it is assigned to: equal lengths, or a source length of 1.
Broadcasts(s, d) == Len(s) = Len(d) \/ Len(s) = 1

BroadcastIndex(s, k) == IF Len(s) = 1 THEN s[1] ELSE s[k]

\* Mutant: the weights of source and destination are exchanged.
Blend_Swapped(a, s, d) == ((AlphaDen - a) * s + a * d) \div AlphaDen

\* alpha * region_src + (1 - alpha) * region_dst, exactly.
Blend(a, s, d) == (a * s + (AlphaDen - a) * d) \div AlphaDen

\* The conversion of a computed value to the destination's element type.
AsDType(v, dtype) == IF dtype = "uint8" THEN (v \div AlphaDen) * AlphaDen ELSE v

\* The destination's elements after line 163.
PastePixels(src, dst, a, l) ==
    LET dy == PySlice(l.start_dst[2], l.end_dst[2], dst.shape[1])
        dx == PySlice(l.start_dst[1], l.end_dst[1], dst.shape[2])
        sy == PySlice(l.start_src[2], l.end_src[2], src.shape[1])
        sx == PySlice(l.start_src[1], l.end_src[1], src.shape[2])
    IN  [p \in Positions(dst.shape) |->
            IF /\ \E k \in 1..Len(dy) : dy[k] = p[1]
               /\ \E k \in 1..Len(dx) : dx[k] = p[2]
            THEN LET ky == CHOOSE k \in 1..Len(dy) : dy[k] = p[1]
                     kx == CHOOSE k \in 1..Len(dx) : dx[k] = p[2]
                     y == BroadcastIndex(sy, ky)
                     x == BroadcastIndex(sx, kx)
                 IN  AsDType(Blend(AlphaAt(a, src, y, x, p[3]),
                                   src.px[<<y, x, p[3]>>], dst.px[p]),
                             dst.dtype)
            ELSE dst.px[p]]

PasteShapesMatch(src, dst, l) ==
    /\ Broadcasts(PySlice(l.start_src[2], l.end_src[2], src.shape[1]),
                  PySlice(l.start_dst[2], l.end_dst[2], dst.shape[1]))
    /\ Broadcasts(PySlice(l.start_src[1], l.end_src[1], src.shape[2]),
                  PySlice(l.start_dst[1], l.end_dst[1], dst.shape[2]))

\* Mutant: the copy of line 147 is left out.
ResultIsDst_NoCopy(inpl) == TRUE

\* Whether the returned array is the caller's buffer (line 145) or a copy
\* of it (line 147).
ResultIsDst(inpl) == inpl

\* Centers, in half pixels: from a source placed wholly before the
\* destination to one placed wholly past it, with a pixel to spare.
CenterRange(maxSrc, maxDst) == (-2 * (maxSrc + 1)) .. (2 * (maxDst + maxSrc + 1))

PasteUnused ==
    /\ im_src = None /\ im_dst = None /\ alpha = None /\ center = None

CCUnused == mask = None /\ min_size = None /\ connectivity = None

GammaUnused == image = None /\ gamma = None /\ lut_cache = None

ReadableUnused == path = None /\ proc = None

PasteInit ==
    /\ pc = "call"
    /\ \E shs \in Shapes(0, MaxSrcH, MaxSrcW), shd \in Shapes(1, MaxDstH, MaxDstW),
          dt \in DTypes :
          /\ Len(shs) = Len(shd)
          /\ im_src = SrcImage(shs)
          /\ im_dst = DstImage(shd, dt)
          /\ alpha \in {None} \cup {AlphaMap(k, shs) : k \in AlphaKinds}
    /\ center \in CenterRange((MaxSrcW + 1) \div 2, MaxDstW)
                    \X CenterRange((MaxSrcH + 1) \div 2, MaxDstH)
    /\ inplace \in BOOLEAN
    /\ result = None /\ loc = None
    /\ CCUnused /\ GammaUnused /\ ReadableUnused

paste_over ==
    /\ pc = "call"
    /\ LET l == PasteLocals(im_src, im_dst, center) IN
         /\ loc' = l
         /\ IF PasteShapesMatch(im_src, im_dst, l)
            THEN LET out == [im_dst EXCEPT !.px = PastePixels(im_src, im_dst, alpha, l)]
                 IN  /\ pc' = "done"
                     /\ result' = [array |-> out, is_dst |-> ResultIsDst(inplace)]
                     /\ im_dst' = IF ResultIsDst(inplace) THEN out ELSE im_dst
            ELSE /\ pc' = "raised"
                 /\ result' = Raised("ValueError")
                 /\ im_dst' = im_dst
    /\ UNCHANGED <<im_src, alpha, center, inplace, mask, min_size, connectivity,
                   image, gamma, lut_cache, path, proc>>

PasteNext == paste_over

PasteSpec == PasteInit /\ [][PasteNext]_vars

-----------------------------------------------------------------------------
(* is_image_readable                                                       *)

\* What subprocess.call can do: the validator ran and exited with a code
\* (negative when a signal ended it), or it could not be started and
\* Popen raised OSError (FileNotFoundError, PermissionError).
ExitCodes == (-MaxSignal) .. MaxExitCode

\* The comparison of line 198.
IsReadable(returncode) == returncode = 0

ReadableInit ==
    /\ pc = "call"
    /\ path \in 1..NumPaths
    /\ proc = None
    /\ inplace = None /\ result = None /\ loc = None
    /\ PasteUnused /\ CCUnused /\ GammaUnused

\* subprocess.call returned the validator's exit code.
ValidatorExited ==
    /\ pc = "call"
    /\ \E code \in ExitCodes :
          /\ proc' = [returncode |-> code]
          /\ result' = IsReadable(code)
    /\ pc' = "done"
    /\ UNCHANGED <<im_src, im_dst, alpha, center, inplace, loc, mask, min_size,
                   connectivity, image, gamma, lut_cache, path>>

\* subprocess.call raised: nothing in is_image_readable catches it.
ValidatorNotStarted ==
    /\ pc = "call"
    /\ proc' = Raised("OSError")
    /\ result' = Raised("OSError")
    /\ pc' = "raised"
    /\ UNCHANGED <<im_src, im_dst, alpha, center, inplace, loc, mask, min_size,
                   connectivity, image, gamma, lut_cache, path>>

is_image_readable == ValidatorExited \/ ValidatorNotStarted

ReadableNext == is_image_readable

ReadableSpec == ReadableInit /\ [][ReadableNext]_vars

-----------------------------------------------------------------------------
(* cv2.connectedComponentsWithStats, remove_small_components and           *)
(* largest_connected_component                                             *)

MaskPositions(shape) == (0..shape[1]-1) \X (0..shape[2]-1)

RasterIndex(p, shape) == p[1] * shape[2] + p[2]

\* The non-zero elements a caller's mask holds, by style: all 1; object
\* ids 1 and 2 side by side; or ids 1 and 256 (an int32 label mask).
MaskValue(style, p, shape) ==
    CASE style = "ones" -> 1
      [] style = "ids" -> 1 + (RasterIndex(p, shape) % 2)
      [] OTHER -> IF RasterIndex(p, shape) % 2 = 0 THEN Uint8Range ELSE 1

MaskOf(shape, fg, style) ==
    [shape |-> shape,
     px |-> [p \in MaskPositions(shape) |->
                IF p \in fg THEN MaskValue(style, p, shape) ELSE 0]]

MaskShapes == {<<h, w>> : h \in 1..MaxMaskH, w \in 1..MaxMaskW}

Masks(styles) ==
    UNION {{MaskOf(sh, fg, st) : fg \in SUBSET MaskPositions(sh), st \in styles} :
              sh \in MaskShapes}

\* astype(np.uint8)
AsUint8(m) == [m EXCEPT !.px = [p \in DOMAIN m.px |-> m.px[p] % Uint8Range]]

Abs(v) == IF v < 0 THEN -v ELSE v

\* Neighbours under 4- or 8-connectivity.
Adjacent(p, q, conn) ==
    /\ p # q
    /\ Abs(p[1] - q[1]) <= 1 /\ Abs(p[2] - q[2]) <= 1
    /\ conn = 4 => Abs(p[1] - q[1]) + Abs(p[2] - q[2]) = 1

\* The pixels of F connected to those of S; `edge` is what the last round
\* added.
RECURSIVE Grow(_, _, _, _)
Grow(S, edge, F, conn) ==
    LET N == {q \in F \ S : \E p \in edge : Adjacent(p, q, conn)}
    IN  IF N = {} THEN S ELSE Grow(S \cup N, N, F, conn)

\* The connected components of F, in raster order of their first pixel.
RECURSIVE Components(_, _, _)
Components(F, conn, shape) ==
    IF F = {} THEN <<>>
    ELSE LET p == CHOOSE u \in F :
                    \A v \in F : RasterIndex(u, shape) <= RasterIndex(v, shape)
             C == Grow({p}, {p}, F, conn)
         IN  <<C>> \o Components(F \ C, conn, shape)

SetMin(S) == CHOOSE v \in S : \A u \in S : v <= u
SetMax(S) == CHOOSE v \in S : \A u \in S : v >= u

\* One row of stats: CC_STAT_LEFT, TOP, WIDTH, HEIGHT, AREA.  (The row of
\* a label without pixels is never read by this module's callers.)
StatsOf(S) ==
    IF S = {} THEN <<0, 0, 0, 0, 0>>
    ELSE LET xs == {p[2] : p \in S}
             ys == {p[1] : p \in S}
         IN  <<SetMin(xs), SetMin(ys), SetMax(xs) - SetMin(xs) + 1,
               SetMax(ys) - SetMin(ys) + 1, Cardinality(S)>>

\* cv2.connectedComponentsWithStats(m, conn, cv2.CV_32S): label 0 is the
\* background (the zero elements); the components of the non-zero
\* elements are labelled 1, 2, ... in raster order of their first pixel.
ConnectedComponentsWithStats(m, conn) ==
    LET F == {p \in DOMAIN m.px : m.px[p] # 0}
        comps == Components(F, conn, m.shape)
    IN  [n_labels |-> 1 + Len(comps),
         labels |-> [p \in DOMAIN m.px |->
                        IF p \in F
                        THEN CHOOSE l \in 1..Len(comps) : p \in comps[l]
                        ELSE 0],
         stats |-> [l \in 0..Len(comps) |->
                      StatsOf(IF l = 0 THEN DOMAIN m.px \ F ELSE comps[l])]]

\* Mutant: the comparison is reversed.
IdsSmall_Large(cc, size) == {l \in DOMAIN cc.stats : cc.stats[l][5] > size}

\* stats[:, -1] < min_size, as the labels it selects (lines 46-47).
IdsSmall(cc, size) == {l \in DOMAIN cc.stats : cc.stats[l][5] < size}

\* The mask after the loop of lines 52-53.
ClearLabels(m, cc, ids) ==
    [m EXCEPT !.px = [p \in DOMAIN m.px |->
                         IF cc.labels[p] \in ids THEN 0 ELSE m.px[p]]]

RemoveSmallInit ==
    /\ pc = "call"
    /\ mask \in Masks({"ones", "ids"})
    /\ min_size \in 0..MaxMinSize
    /\ connectivity \in {4, 8}
    /\ inplace \in BOOLEAN
    /\ result = None /\ loc = None
    /\ PasteUnused /\ GammaUnused /\ ReadableUnused

remove_small_components ==
    /\ pc = "call"
    /\ LET cc == ConnectedComponentsWithStats(mask, connectivity)
           ids_small == IdsSmall(cc, min_size)
           out == ClearLabels(mask, cc, ids_small)
       IN  /\ loc' = [n_labels |-> cc.n_labels, labels |-> cc.labels,
                      stats |-> cc.stats, ids_small |-> ids_small]
           /\ result' = [array |-> out, is_arg |-> inplace]
           /\ mask' = IF inplace THEN out ELSE mask
    /\ pc' = "done"
    /\ UNCHANGED <<im_src, im_dst, alpha, center, inplace, min_size, connectivity,
                   image, gamma, lut_cache, path, proc>>

RemoveSmallNext == remove_small_components

RemoveSmallSpec == RemoveSmallInit /\ [][RemoveSmallNext]_vars

\* The connectivity largest_connected_component asks for.
LccConnectivity == 4

\* stats[1:, -1]: the areas of labels 1 .. n_labels-1.
ForegroundAreas(cc) == [k \in 1..(cc.n_labels - 1) |-> cc.stats[k][5]]

\* Mutant: the first label of the sorted order, argsort(areas)[0].
LargestAreaLabels_Smallest(areas) ==
    {k \in DOMAIN areas : \A j \in DOMAIN areas : areas[j] >= areas[k]}

\* 1 + np.argsort(areas)[-1]: a label of greatest area.  argsort's default
\* sort is not stable, so among equal areas any of them may come last.
LargestAreaLabels(areas) ==
    {k \in DOMAIN areas : \A j \in DOMAIN areas : areas[j] <= areas[k]}

LargestInit ==
    /\ pc = "call"
    /\ mask \in Masks({"ones", "ids", "wide"})
    /\ min_size = None /\ connectivity = None
    /\ inplace = None /\ result = None /\ loc = None
    /\ PasteUnused /\ GammaUnused /\ ReadableUnused

\* Lines 69-70: no foreground label.
LargestOfNone ==
    /\ pc = "call"
    /\ LET m8 == AsUint8(mask)
           cc == ConnectedComponentsWithStats(m8, LccConnectivity)
           areas == ForegroundAreas(cc)
       IN  /\ Len(areas) < 1
           /\ loc' = [n_labels |-> cc.n_labels, labels |-> cc.labels,
                      stats |-> cc.stats, areas |-> areas]
           /\ result' = [obj_mask |-> m8, obj_box |-> <<0, 0, 0, 0>>]
    /\ pc' = "done"
    /\ UNCHANGED <<im_src, im_dst, alpha, center, inplace, mask, min_size,
                   connectivity, image, gamma, lut_cache, path, proc>>

\* Lines 72-76.
LargestOfSome ==
    /\ pc = "call"
    /\ LET m8 == AsUint8(mask)
           cc == ConnectedComponentsWithStats(m8, LccConnectivity)
           areas == ForegroundAreas(cc)
       IN  /\ Len(areas) >= 1
           /\ \E largest_area_label \in LargestAreaLabels(areas) :
                 /\ loc' = [n_labels |-> cc.n_labels, labels |-> cc.labels,
                            stats |-> cc.stats, areas |-> areas]
                 /\ result' =
                       [obj_mask |->
                           [shape |-> m8.shape,
                            px |-> [p \in DOMAIN m8.px |->
                                       IF cc.labels[p] = largest_area_label
                                       THEN 1 ELSE 0]],
                        obj_box |-> SubSeq(cc.stats[largest_area_label], 1, 4)]
    /\ pc' = "done"
    /\ UNCHANGED <<im_src, im_dst, alpha, center, inplace, mask, min_size,
                   connectivity, image, gamma, lut_cache, path, proc>>

largest_connected_component == LargestOfNone \/ LargestOfSome

LargestNext == largest_connected_component

LargestSpec == LargestInit /\ [][LargestNext]_vars

-----------------------------------------------------------------------------
(* adjust_gamma and get_gamma_lookup_table                                 *)
(*                                                                         *)
(* np.linspace(0, 1, 256) ** gamma * 255 is float64 arithmetic.  A float64 *)
(* is modelled exactly, as m * 2^e with m a natural number; every          *)
(* operation rounds its exact result to MantissaBits bits, to nearest,     *)
(* ties to even, as IEEE 754 does.                                         *)

\* Naturals too large for the model checker's integers are sequences of
\* limbs, least significant first, in base LimbBase.
LimbBase == 2^13

Pow2(k) == 2^k

RECURSIVE NatLimbs(_)
NatLimbs(n) == IF n = 0 THEN <<>> ELSE <<n % LimbBase>> \o NatLimbs(n \div LimbBase)

RECURSIVE LimbsNat(_)
LimbsNat(a) == IF a = <<>> THEN 0 ELSE a[1] + LimbBase * LimbsNat(Tail(a))

LimbAt(a, j) == IF j \in 1..Len(a) THEN a[j] ELSE 0

\* Bit k (from 0) of a, and the number of bits of a.
BitAt(a, k) == (LimbAt(a, k \div 13 + 1) \div Pow2(k % 13)) % 2

BitLen(a) ==
    LET ones == {k \in 0..(13 * Len(a) - 1) : BitAt(a, k) = 1}
    IN  IF ones = {} THEN 0 ELSE 1 + SetMax(ones)

\* The limbs of a number given as column sums, carries propagated.
RECURSIVE Propagate(_, _, _)
Propagate(cols, k, carry) ==
    IF k > Len(cols) THEN NatLimbs(carry)
    ELSE <<(cols[k] + carry) % LimbBase>>
            \o Propagate(cols, k + 1, (cols[k] + carry) \div LimbBase)

RECURSIVE SumTo(_, _)
SumTo(f, n) == IF n = 0 THEN 0 ELSE f[n] + SumTo(f, n - 1)

\* The exact product of two naturals.
MulLimbs(a, b) ==
    IF Len(a) = 0 \/ Len(b) = 0 THEN <<>>
    ELSE Propagate([k \in 1..(Len(a) + Len(b) - 1) |->
                       SumTo([i \in 1..Len(a) |-> a[i] * LimbAt(b, k + 1 - i)],
                             Len(a))], 1, 0)

\* floor(a / 2^s)
ShiftRight(a, s) ==
    LET q == s \div 13
        r == s % 13
    IN  [j \in 1..Max(Len(a) - q, 0) |->
            LimbAt(a, j + q) \div Pow2(r)
              + (LimbAt(a, j + q + 1) % Pow2(r)) * Pow2(13 - r)]

\* Quotient limbs (most significant first) and remainder of the natural
\* with limbs `num` (most significant first) by the small natural d.
RECURSIVE LongDiv(_, _, _, _)
LongDiv(num, d, k, r) ==
    IF k > Len(num) THEN [q |-> <<>>, r |-> r]
    ELSE LET r2 == LimbBase * r + num[k]
             rest == LongDiv(num, d, k + 1, r2 % d)
         IN  [q |-> <<r2 \div d>> \o rest.q, r |-> rest.r]

Reverse(b) == [k \in 1..Len(b) |-> b[Len(b) + 1 - k]]

\* m * 2^e (or, with sticky, a value just above it) rounded to a float64:
\* to nearest, ties to even.
RoundFloat(m, e, sticky) ==
    LET s == BitLen(m) - MantissaBits
    IN  IF s <= 0 THEN [m |-> m, e |-> e]
        ELSE LET q == ShiftRight(m, s)
                 low == sticky \/ \E k \in 0..(s - 2) : BitAt(m, k) = 1
                 up == BitAt(m, s - 1) = 1 /\ (low \/ BitAt(q, 0) = 1)
             IN  [m |-> IF up THEN Propagate(q, 1, 1) ELSE q, e |-> e + s]

FloatOfNat(n) == [m |-> NatLimbs(n), e |-> 0]

FloatMul(x, y) == RoundFloat(MulLimbs(x.m, y.m), x.e + y.e, FALSE)

\* n / d for small naturals n and d, as float64 division gives it: the
\* quotient of n * LimbBase^5 by d, the remainder sticky, rounded.
FloatDivNat(n, d) ==
    LET num == Reverse([k \in 1..5 |-> 0] \o NatLimbs(n))
        qr == LongDiv(num, d, 1, 0)
    IN  RoundFloat(Reverse(qr.q), -(13 * 5), qr.r # 0)

\* astype(np.uint8) of a float64 in [0, 256): truncation.
FloatToUint8(x) ==
    IF x.e >= 0 THEN LimbsNat(x.m) * Pow2(x.e)
    ELSE LimbsNat(ShiftRight(x.m, -x.e))

\* np.linspace(0, 1, num)[i]: step = (stop - start) / (num - 1), the
\* samples arange(num) * step + start, the last one set to stop.
Linspace01(num, i) ==
    IF i = num - 1 THEN FloatOfNat(1)
    ELSE FloatMul(FloatOfNat(i), FloatDivNat(1, num - 1))

\* x ** g for the exponents 0, 1 and 2 (ones, x itself, the square).
FloatPower(x, g) ==
    CASE g = 0 -> FloatOfNat(1)
      [] g = 1 -> x
      [] g = 2 -> FloatMul(x, x)

Gammas == {0, 1, 2}

\* Line 178.
get_gamma_lookup_table(g) ==
    [i \in 0..(NumLevels - 1) |->
        FloatToUint8(FloatMul(FloatPower(Linspace01(NumLevels, i), g),
                              FloatOfNat(MaxLevel)))]

\* The tables, computed once for the model checker.
GammaTables == [g \in Gammas |-> get_gamma_lookup_table(g)]

\* cv2.LUT(image, lut)
LUT(im, lut) == [im EXCEPT !.px = [p \in DOMAIN im.px |-> lut[im.px[p]]]]

\* uint8 images of one row whose pixels count up from v0.
GammaImages ==
    {[shape |-> <<1, n>>,
      px |-> [p \in MaskPositions(<<1, n>>) |-> (v0 + p[2]) % NumLevels]] :
        n \in 1..MaxLutPixels, v0 \in 0..(NumLevels - 1)}

GammaInit ==
    /\ pc = "call"
    /\ image \in GammaImages
    /\ gamma \in Gammas
    /\ inplace \in BOOLEAN
    /\ lut_cache = <<>>
    /\ result = None /\ loc = None
    /\ PasteUnused /\ CCUnused /\ ReadableUnused

\* Lines 168-173 with the table `lut` that get_gamma_lookup_table returned.
AdjustWith(lut) ==
    /\ loc' = [lut |-> lut]
    /\ result' = [array |-> LUT(image, lut), is_arg |-> inplace]
    /\ image' = IF inplace THEN LUT(image, lut) ELSE image
    /\ pc' = "done"
    /\ UNCHANGED <<im_src, im_dst, alpha, center, inplace, mask, min_size,
                   connectivity, gamma, path, proc>>

\* The lru_cache holds no table for gamma: it is computed and kept.  (The
\* cache's default size is above the number of gammas here: no eviction.)
AdjustCacheMiss ==
    /\ pc = "call"
    /\ gamma \notin DOMAIN lut_cache
    /\ lut_cache' = [g \in DOMAIN lut_cache \cup {gamma} |-> GammaTables[g]]
    /\ AdjustWith(GammaTables[gamma])

\* The lru_cache holds the table computed by an earlier call.
AdjustCacheHit ==
    /\ pc = "call"
    /\ gamma \in DOMAIN lut_cache
    /\ lut_cache' = lut_cache
    /\ AdjustWith(lut_cache[gamma])

adjust_gamma == AdjustCacheMiss \/ AdjustCacheHit

\* The caller calls adjust_gamma again, on the image it now holds.
CallAgain ==
    /\ pc = "done"
    /\ \E g \in Gammas, i \in BOOLEAN :
          /\ gamma' = g
          /\ inplace' = i
    /\ pc' = "call"
    /\ result' = None /\ loc' = None
    /\ UNCHANGED <<im_src, im_dst, alpha, center, mask, min_size, connectivity,
                   image, lut_cache, path, proc>>

GammaNext == adjust_gamma \/ CallAgain

GammaSpec == GammaInit /\ [][GammaNext]_vars

-----------------------------------------------------------------------------
(* Properties of paste_over.  The geometry is restated here from the       *)
(* arguments alone: the ideal rectangle starts at round(center) - size//2  *)
(* and has the source's size; axis 1 is x (width), axis 2 is y (height).   *)

Called == pc # "call"
Returned == pc = "done"

SrcSize(i) == IF i = 1 THEN im_src.shape[2] ELSE im_src.shape[1]
DstSize(i) == IF i = 1 THEN im_dst.shape[2] ELSE im_dst.shape[1]
RectLo(i) == NpRound(center[i]) - SrcSize(i) \div 2
RectHi(i) == RectLo(i) + SrcSize(i)

\* The ideal rectangle meets the destination on axis i; lies within it.
Meets(i) == Max(RectLo(i), 0) < Min(RectHi(i), DstSize(i))
Within(i) == 0 <= RectLo(i) /\ RectHi(i) <= DstSize(i)
FullyOutside == ~Meets(1) \/ ~Meets(2)
FullyInside == Within(1) /\ Within(2) /\ SrcSize(1) > 0 /\ SrcSize(2) > 0
Straddling == Meets(1) /\ Meets(2) /\ ~(Within(1) /\ Within(2))

\* Destination position p = <<y, x, ch>> lies in the ideal rectangle.
InRect(p) ==
    /\ RectLo(1) <= p[2] /\ p[2] < RectHi(1)
    /\ RectLo(2) <= p[1] /\ p[1] < RectHi(2)

\* The destination as the caller passed it, and the source element that
\* the ideal placement puts over p.
DstBefore == DstImage(im_dst.shape, im_dst.dtype)
SrcOver(p) == im_src.px[<<p[1] - RectLo(2), p[2] - RectLo(1), p[3]>>]
AlphaOver(p) ==
    IF alpha = None THEN AlphaDen
    ELSE alpha.px[<<p[1] - RectLo(2), p[2] - RectLo(1)>>]

\* alpha*src + (1-alpha)*dst as a fixed-point value.
Lerp(a, s, d) == (a * s + (AlphaDen - a) * d) \div AlphaDen

\* The value an element of the destination's type holds for v.
Stored(v) ==
    IF im_dst.dtype = "uint8" THEN AlphaDen * (v \div AlphaDen) ELSE v

AlphaAllOnes ==
    \/ alpha = None
    \/ \A q \in DOMAIN alpha.px : alpha.px[q] = AlphaDen

\* C1: when the ideal placement rectangle misses the destination on at
\* least one axis, paste_over returns without an error an image equal to
\* the original destination at every pixel.
C1_FullyOutsideUnchanged ==
    (Called /\ FullyOutside) =>
        /\ Returned
        /\ result.array = DstBefore

\* C1 witness: a non-empty source placed wholly past the right edge, where
\* the source slice indices are negative.
C1_Witness ==
    /\ Returned /\ FullyOutside
    /\ SrcSize(1) > 0 /\ SrcSize(2) > 0
    /\ RectLo(1) > DstSize(1)
    /\ loc.start_src[1] < 0

\* C2 as claimed: with the ideal rectangle entirely within the
\* destination, every output pixel in the rectangle equals
\* alpha*src + (1-alpha)*dst and every other pixel equals the destination.
C2_InsideExactBlend ==
    (Returned /\ FullyInside) =>
        \A p \in Positions(im_dst.shape) :
            result.array.px[p] =
                IF InRect(p)
                THEN Lerp(AlphaOver(p), SrcOver(p), DstBefore.px[p])
                ELSE DstBefore.px[p]

\* C2 amended: with the ideal rectangle entirely within the destination,
\* every output pixel in the rectangle equals alpha*src + (1-alpha)*dst
\* converted to the destination's element type (truncated toward zero for
\* an integer destination), and every other pixel equals the destination.
C2_InsideStoredBlend ==
    (Called /\ FullyInside) =>
        /\ Returned
        /\ result.array.shape = im_dst.shape
        /\ \A p \in Positions(im_dst.shape) :
              result.array.px[p] =
                  IF InRect(p)
                  THEN Stored(Lerp(AlphaOver(p), SrcOver(p), DstBefore.px[p]))
                  ELSE DstBefore.px[p]

\* C2 witness: a source inside a larger destination, blended with a
\* fractional alpha into an integer destination where the exact blend is
\* not a whole number, next to a pixel left alone.
C2_Witness ==
    /\ Returned /\ FullyInside
    /\ im_dst.dtype = "uint8"
    /\ \E p \in Positions(im_dst.shape) :
          /\ InRect(p)
          /\ AlphaOver(p) \notin {0, AlphaDen}
          /\ Lerp(AlphaOver(p), SrcOver(p), DstBefore.px[p]) % AlphaDen # 0
    /\ \E p \in Positions(im_dst.shape) : ~InRect(p)

\* C3: when the ideal rectangle only partly overlaps the destination, the
\* result has the destination's shape, each pixel in the intersection is
\* the blend of the destination pixel with the source pixel at the same
\* offset from the ideal start, every other pixel equals the destination,
\* and the part of the source outside the destination is discarded.
C3_StraddlingClipped ==
    (Called /\ Straddling) =>
        /\ Returned
        /\ result.array.shape = im_dst.shape
        /\ DOMAIN result.array.px = Positions(im_dst.shape)
        /\ \A p \in Positions(im_dst.shape) :
              result.array.px[p] =
                  IF InRect(p)
                  THEN Stored(Lerp(AlphaOver(p), SrcOver(p), DstBefore.px[p]))
                  ELSE DstBefore.px[p]

\* C3 witness: a source overhanging a corner of the destination (clipped
\* on both axes), with a destination pixel outside the overlap.
C3_Witness ==
    /\ Returned /\ Straddling
    /\ ~Within(1) /\ ~Within(2)
    /\ \E p \in Positions(im_dst.shape) : InRect(p)
    /\ \E p \in Positions(im_dst.shape) : ~InRect(p)

\* C4: with alpha 1 everywhere, or alpha None, each output pixel in the
\* overlap equals the source pixel exactly, whatever the destination
\* held, and each pixel outside the overlap equals the destination.
C4_OpaqueOverwrite ==
    (Called /\ AlphaAllOnes) =>
        /\ Returned
        /\ \A p \in Positions(im_dst.shape) :
              result.array.px[p] =
                  IF InRect(p) THEN SrcOver(p) ELSE DstBefore.px[p]

\* C4 witness: alpha None over a partial overlap, a pixel overwritten
\* with a source value that differs from what the destination held.
C4_Witness ==
    /\ Returned /\ alpha = None /\ Straddling
    /\ \E p \in Positions(im_dst.shape) :
          InRect(p) /\ result.array.px[p] # DstBefore.px[p]

\* C9: the clamped source rectangle has the clamped destination
\* rectangle's width and height, and on an axis where the destination
\* rectangle is not empty, 0 <= start_src < end_src <= source size.
C9_IndexArithmetic ==
    Called =>
        \A i \in 1..2 :
            /\ loc.end_src[i] - loc.start_src[i] = loc.end_dst[i] - loc.start_dst[i]
            /\ loc.start_dst[i] < loc.end_dst[i] =>
                  /\ 0 <= loc.start_src[i]
                  /\ loc.start_src[i] < loc.end_src[i]
                  /\ loc.end_src[i] <= SrcSize(i)

\* C9 witness: a source wider than the destination, clipped on both sides
\* of the x axis at once.
C9_Witness ==
    /\ Called
    /\ loc.start_dst[1] < loc.end_dst[1]
    /\ loc.start_src[1] > 0
    /\ loc.end_src[1] < SrcSize(1)

\* C10: with inplace=False the caller's destination, source and alpha are
\* as before the call and the result is a separate buffer; with
\* inplace=True the result is the caller's destination buffer, changed
\* only inside the clamped overlap rectangle, source and alpha as before.
C10_FrameEffect ==
    [][pc = "call" =>
          /\ pc' = "done"
          /\ im_src' = im_src
          /\ alpha' = alpha
          /\ ~inplace => im_dst' = im_dst /\ ~result'.is_dst
          /\ inplace =>
                /\ result'.is_dst
                /\ result'.array = im_dst'
                /\ im_dst'.shape = im_dst.shape
                /\ \A p \in Positions(im_dst.shape) :
                      \/ im_dst'.px[p] = im_dst.px[p]
                      \/ /\ Max(RectLo(1), 0) <= p[2]
                         /\ p[2] < Min(RectHi(1), DstSize(1))
                         /\ Max(RectLo(2), 0) <= p[1]
                         /\ p[1] < Min(RectHi(2), DstSize(2))]_vars

\* C10 witness: a call with inplace=True that pasted over part of the
\* caller's destination and left a pixel of it alone.
C10_Witness ==
    /\ Returned /\ inplace /\ result.is_dst
    /\ \E p \in Positions(im_dst.shape) : im_dst.px[p] # DstBefore.px[p]
    /\ \E p \in Positions(im_dst.shape) : im_dst.px[p] = DstBefore.px[p]

-----------------------------------------------------------------------------
(* Properties of is_image_readable.                                        *)

\* C5: is_image_readable returns False both when the validator exits with
\* a non-zero code and when it cannot be invoked at all, returns True only
\* when the validator ran and exited with code 0, and never raises.
C5_NotReadableNeverRaises ==
    Called =>
        /\ pc # "raised"
        /\ result \in BOOLEAN
        /\ result = TRUE <=> proc = [returncode |-> 0]

-----------------------------------------------------------------------------
(* Properties of remove_small_components and largest_connected_component.  *)

\* C6: remove_small_components with min_size = 0 returns a mask equal to
\* the input mask at every pixel, for every mask and connectivity 4 or 8
\* (and leaves the caller's mask as it was).
C6_MinSizeZeroUnchanged ==
    [][(pc = "call" /\ min_size = 0) =>
          /\ pc' = "done"
          /\ result'.array = mask
          /\ mask' = mask]_vars

\* C6 witness: min_size = 0 on a mask with at least two components and
\* elements other than 0 and 1, returned as it was.
C6_Witness ==
    /\ Returned /\ min_size = 0
    /\ loc.n_labels >= 3
    /\ \E p \in DOMAIN mask.px : mask.px[p] = 2
    /\ result.array = mask

\* The foreground of the mask largest_connected_component labels (the
\* elements that are not zero as np.uint8) and its 4-connected components.
Fg8 == {p \in DOMAIN mask.px : mask.px[p] % Uint8Range # 0}

RECURSIVE Flood4(_, _)
Flood4(S, F) ==
    LET N == S \cup {q \in F : \E p \in S :
                        Abs(p[1] - q[1]) + Abs(p[2] - q[2]) = 1}
    IN  IF N = S THEN S ELSE Flood4(N, F)

ObjPixels == {p \in DOMAIN result.obj_mask.px : result.obj_mask.px[p] # 0}

C8_WitnessEmpty ==
    /\ Returned /\ Fg8 = {}
    /\ result.obj_box = <<0, 0, 0, 0>>

-----------------------------------------------------------------------------
(* Properties of adjust_gamma.                                             *)

\* C7: adjust_gamma with gamma = 1 is the identity: the lookup table of
\* get_gamma_lookup_table(1) maps every 8-bit value to itself, so every
\* pixel of the output equals the input pixel.
C7_GammaOneIdentity ==
    [][(pc = "call" /\ gamma = 1) =>
          /\ pc' = "done"
          /\ result'.array = image]_vars

====
